---- MODULE Spec2Model ----
(***************************************************************************)
(* Model of the two stateful/algorithmic pieces of the repository:         *)
(*   - aimakerspace/text_utils.py: CharacterTextSplitter (__init__, split, *)
(*     split_texts), specification Spec;                                   *)
(*   - api/app.py: check_rate_limit over the module-level dictionary       *)
(*     request_counts, specification SpecRate.                             *)
(* Texts are sequences of one-character strings; positions are 0-based in  *)
(* the formulas, as in Python, and sequences are 1-based as in TLA+.       *)
(***************************************************************************)
EXTENDS Integers, Sequences, FiniteSets, TLC

VARIABLES
    pc,              \* position of the caller script: start, constructed, done, failed
    args,            \* the (chunk_size, chunk_overlap) pair passed to __init__
    splitter,        \* the CharacterTextSplitter object, or NoSplitter
    op,              \* the method called last: none, split, split_texts
    text,            \* argument of the last split call
    texts,           \* argument of the last split_texts call
    chunks,          \* the list returned by the last call
    request_counts,  \* app.py: dict client_ip -> list of timestamps
    now,             \* the clock read by time.time()
    limit,           \* the limit argument of check_rate_limit
    window,          \* the window argument of check_rate_limit
    last,            \* the last check_rate_limit call: ip, time, outcome, list before
    admitted         \* history: per ip, the timestamps of its admitted calls

vars == <<pc, args, splitter, op, text, texts, chunks,
          request_counts, now, limit, window, last, admitted>>

splitVars == <<pc, args, splitter, op, text, texts, chunks>>
rateVars == <<request_counts, now, limit, window, last, admitted>>

(***************************************************************************)
(* Bounds of the model.                                                    *)
(***************************************************************************)
MaxLen == 5        \* longest generated text
MaxChunk == 4      \* largest generated chunk_size / chunk_overlap
MaxNeg == 2        \* chunk_size and chunk_overlap go down to -MaxNeg
MaxDocs == 2       \* longest generated document list
MaxDocLen == 2     \* longest generated document of a document list

Alphabet == {"a", "b"}

SeqsUpTo(S, n) == UNION {[1..k -> S] : k \in 0..n}

\* The two documents of the end-to-end example, chunked with (20, 5).
CatDoc == <<"T", "h", "e", " ", "c", "a", "t", " ", "s", "a", "t", " ", "o",
            "n", " ", "t", "h", "e", " ", "m", "a", "t", ".">>
DogDoc == <<"D", "o", "g", "s", " ", "b", "a", "r", "k", " ", "l", "o", "u",
            "d", "l", "y", ".">>
ExampleConfig == <<20, 5>>
CatPhrase == <<"c", "a", "t", " ", "s", "a", "t", " ", "o", "n", " ", "t",
               "h", "e", " ", "m", "a", "t">>

Texts == SeqsUpTo(Alphabet, MaxLen) \cup {CatDoc, DogDoc}
DocLists == SeqsUpTo(SeqsUpTo(Alphabet, MaxDocLen), MaxDocs) \cup {<<CatDoc, DogDoc>>}
Sizes == (0 - MaxNeg)..MaxChunk
Configs == (Sizes \X Sizes) \cup {ExampleConfig}

NoSplitter == [chunk_size |-> 0, chunk_overlap |-> 0, valid |-> FALSE]

Min(a, b) == IF a <= b THEN a ELSE b
Max(a, b) == IF a >= b THEN a ELSE b

(***************************************************************************)
(* text_utils.py: CharacterTextSplitter                                    *)
(***************************************************************************)

\* Mutant: the check demanded by the written contract, chunk_size > overlap > 0.
AssertHoldsStrict(chunk_size, chunk_overlap) ==
    chunk_size > chunk_overlap /\ chunk_overlap > 0

\* The assert of __init__: chunk_size > chunk_overlap.
AssertHolds(chunk_size, chunk_overlap) ==
    chunk_size > chunk_overlap

\* Python's index normalisation for a slice bound on a sequence of length n.
SliceIndex(i, n) ==
    IF i < 0 THEN Max(i + n, 0) ELSE Min(i, n)

\* Mutant: the slice stops one position early.
PySliceShort(s, lo, hi) ==
    LET a == SliceIndex(lo, Len(s))
        b == SliceIndex(hi - 1, Len(s))
    IN  IF a < b THEN SubSeq(s, a + 1, b) ELSE <<>>

\* Python's s[lo:hi].
PySlice(s, lo, hi) ==
    LET a == SliceIndex(lo, Len(s))
        b == SliceIndex(hi, Len(s))
    IN  IF a < b THEN SubSeq(s, a + 1, b) ELSE <<>>

\* Mutant: the step adds the overlap instead of subtracting it.
RangeStepAdd(self) ==
    self.chunk_size + self.chunk_overlap

\* The step of the range of split: self.chunk_size - self.chunk_overlap.
RangeStep(self) ==
    self.chunk_size - self.chunk_overlap

\* Mutant: the range stops where the last full window starts.
RangeStopFull(self, t) ==
    Len(t) - self.chunk_size + 1

\* The stop of the range of split: len(text).
RangeStop(self, t) ==
    Len(t)

\* Python's range(start, stop, step) as the sequence of its values. A step of
\* 0 raises ValueError and yields no value; split never passes one, since
\* __init__ asserts chunk_size > chunk_overlap.
RECURSIVE PyRange(_, _, _)
PyRange(start, stop, step) ==
    IF (step > 0 /\ start < stop) \/ (step < 0 /\ start > stop)
    THEN <<start>> \o PyRange(start + step, stop, step)
    ELSE <<>>

\* The for loop of split over the remaining values of the range: one append
\* per value.
RECURSIVE SplitLoop(_, _, _, _)
SplitLoop(self, t, values, acc) ==
    IF values = <<>>
    THEN acc
    ELSE SplitLoop(self, t, Tail(values),
                   Append(acc, PySlice(t, Head(values),
                                       Head(values) + self.chunk_size)))

\* CharacterTextSplitter.split
split(self, t) ==
    SplitLoop(self, t, PyRange(0, RangeStop(self, t), RangeStep(self)), <<>>)

\* The for loop of split_texts from document k on: one extend per document.
RECURSIVE SplitTextsLoop(_, _, _, _)
SplitTextsLoop(self, ts, k, acc) ==
    IF k > Len(ts)
    THEN acc
    ELSE SplitTextsLoop(self, ts, k + 1, acc \o split(self, ts[k]))

\* Mutant: the loop assigns the chunks of each document instead of extending.
split_texts_assign(self, ts) ==
    IF ts = <<>> THEN <<>> ELSE split(self, ts[Len(ts)])

\* CharacterTextSplitter.split_texts
split_texts(self, ts) ==
    SplitTextsLoop(self, ts, 1, <<>>)

InitRateIdle ==
    /\ request_counts = <<>>
    /\ now = 0
    /\ limit = 0
    /\ window = 0
    /\ last = [ip |-> "none", time |-> 0, outcome |-> "none", before |-> <<>>]
    /\ admitted = <<>>

Init ==
    /\ pc = "start"
    /\ args = <<0, 0>>
    /\ splitter = NoSplitter
    /\ op = "none"
    /\ text = <<>>
    /\ texts = <<>>
    /\ chunks = <<>>
    /\ InitRateIdle

\* CharacterTextSplitter(chunk_size, chunk_overlap): the assert, then the fields.
Construct(chunk_size, chunk_overlap) ==
    /\ pc = "start"
    /\ args' = <<chunk_size, chunk_overlap>>
    /\ IF AssertHolds(chunk_size, chunk_overlap)
       THEN /\ splitter' = [chunk_size |-> chunk_size,
                            chunk_overlap |-> chunk_overlap, valid |-> TRUE]
            /\ pc' = "constructed"
       ELSE /\ splitter' = NoSplitter
            /\ pc' = "failed"
    /\ UNCHANGED <<op, text, texts, chunks>>
    /\ UNCHANGED rateVars

\* splitter.split(t)
Split(t) ==
    /\ pc = "constructed"
    /\ op' = "split"
    /\ text' = t
    /\ chunks' = split(splitter, t)
    /\ pc' = "done"
    /\ UNCHANGED <<args, splitter, texts>>
    /\ UNCHANGED rateVars

\* splitter.split_texts(ts)
SplitTexts(ts) ==
    /\ pc = "constructed"
    /\ op' = "split_texts"
    /\ texts' = ts
    /\ chunks' = split_texts(splitter, ts)
    /\ pc' = "done"
    /\ UNCHANGED <<args, splitter, text>>
    /\ UNCHANGED rateVars

Next ==
    \/ \E c \in Configs : Construct(c[1], c[2])
    \/ \E t \in Texts : Split(t)
    \/ \E ts \in DocLists : SplitTexts(ts)

Spec == Init /\ [][Next]_vars

(***************************************************************************)
(* api/app.py: check_rate_limit                                            *)
(***************************************************************************)
MaxLimit == 3      \* limit ranges over 1..MaxLimit
MaxWindow == 3     \* window ranges over 1..MaxWindow
MaxTime == 4       \* the clock stops advancing at MaxTime
MaxStep == 2       \* largest advance of the clock between two calls
MaxCalls == 5      \* admitted calls recorded in the history

IPs == {"ip1", "ip2"}

\* request_counts.get(ip, []) : the list stored for ip, empty when ip is no key.
StoredFor(counts, ip) ==
    IF ip \in DOMAIN counts THEN counts[ip] ELSE <<>>

\* request_counts[ip] = list
Store(counts, ip, list) ==
    [b \in (DOMAIN counts) \cup {ip} |-> IF b = ip THEN list ELSE counts[b]]

\* Mutant: one list shared by every client.
SharedKey(client_ip) ==
    "all"

\* The dictionary key of a client: its ip.
KeyOf(client_ip) ==
    client_ip

\* The filter of the list comprehension: current_time - req_time < window.
InWindow(current_time, req_time, win) ==
    current_time - req_time < win

\* Mutant: the limit is reached only above limit.
LimitReachedAbove(list, lim) ==
    Len(list) > lim

\* The test before the raise: len(request_counts[client_ip]) >= limit.
LimitReached(list, lim) ==
    Len(list) >= lim

\* Mutant: the timestamp is appended before the test, so a rejected call is
\* recorded too.
check_rate_limit_append_first(counts, client_ip, current_time, lim, win) ==
    LET key    == KeyOf(client_ip)
        kept   == SelectSeq(StoredFor(counts, key),
                            LAMBDA req_time : InWindow(current_time, req_time, win))
        stored == Append(kept, current_time)
    IN  IF Len(stored) > lim
        THEN [counts |-> Store(counts, key, stored), outcome |-> "rejected"]
        ELSE [counts |-> Store(counts, key, stored), outcome |-> "admitted"]

\* check_rate_limit: the dictionary after the call and whether it raised 429.
check_rate_limit(counts, client_ip, current_time, lim, win) ==
    LET key    == KeyOf(client_ip)
        kept   == SelectSeq(StoredFor(counts, key),
                            LAMBDA req_time : InWindow(current_time, req_time, win))
        purged == Store(counts, key, kept)
    IN  IF LimitReached(kept, lim)
        THEN [counts |-> purged, outcome |-> "rejected"]
        ELSE [counts |-> Store(purged, key, Append(kept, current_time)),
              outcome |-> "admitted"]

\* Number of admitted calls recorded in the history.
TotalAdmitted ==
    Cardinality({c \in IPs \X (1..MaxCalls) : c[2] <= Len(admitted[c[1]])})

InitRate ==
    /\ pc = "start"
    /\ args = <<0, 0>>
    /\ splitter = NoSplitter
    /\ op = "none"
    /\ text = <<>>
    /\ texts = <<>>
    /\ chunks = <<>>
    /\ request_counts = <<>>
    /\ now = 0
    /\ limit \in 1..MaxLimit
    /\ window \in 1..MaxWindow
    /\ last = [ip |-> "none", time |-> 0, outcome |-> "none", before |-> <<>>]
    /\ admitted = [ip \in IPs |-> <<>>]

\* time.time() returns a later value at the next call.
Tick(d) ==
    /\ now + d <= MaxTime
    /\ now' = now + d
    /\ UNCHANGED <<request_counts, limit, window, last, admitted>>
    /\ UNCHANGED splitVars

\* chat calls check_rate_limit(client_ip) at the current time.
CheckRateLimit(client_ip) ==
    LET r == check_rate_limit(request_counts, client_ip, now, limit, window)
    IN  /\ TotalAdmitted < MaxCalls
        /\ request_counts' = r.counts
        /\ last' = [ip |-> client_ip, time |-> now, outcome |-> r.outcome,
                    before |-> StoredFor(request_counts, client_ip)]
        /\ admitted' = IF r.outcome = "admitted"
                       THEN [admitted EXCEPT ![client_ip] = Append(@, now)]
                       ELSE admitted
        /\ UNCHANGED <<now, limit, window>>
        /\ UNCHANGED splitVars

NextRate ==
    \/ \E d \in 1..MaxStep : Tick(d)
    \/ \E ip \in IPs : CheckRateLimit(ip)

SpecRate == InitRate /\ [][NextRate]_vars

(***************************************************************************)
(* Properties of CharacterTextSplitter, specification Spec.                *)
(***************************************************************************)
ChunkSize == splitter.chunk_size
Overlap == splitter.chunk_overlap
Stride == ChunkSize - Overlap
NChunks == Len(chunks)
SplitDone == pc = "done" /\ op = "split"
InContract == ChunkSize > Overlap /\ Overlap > 0

\* 0-based start and end (exclusive) of the positions the claims give chunk j (1-based).
StartOf(j) == (j - 1) * Stride
EndOf(j) == StartOf(j) + Len(chunks[j])

CeilDiv(a, b) == (a + b - 1) \div b

Contains(c, p) ==
    \E k \in 0..(Len(c) - Len(p)) : SubSeq(c, k + 1, k + Len(p)) = p

\* C1 as written: construction succeeds exactly when chunk_size > overlap > 0,
\* and fails for every other pair, overlap = 0 and overlap < 0 included.
C1_Original ==
    pc # "start" =>
        (splitter.valid <=> (args[1] > args[2] /\ args[2] > 0))

\* C1 amended: construction succeeds exactly when chunk_size > overlap (the
\* object then holds the two arguments); when overlap >= chunk_size it fails,
\* no splitter exists and no split has been made with it.
C1_Amended ==
    pc # "start" =>
        /\ splitter.valid <=> args[1] > args[2]
        /\ splitter.valid =>
               /\ pc \in {"constructed", "done"}
               /\ splitter.chunk_size = args[1]
               /\ splitter.chunk_overlap = args[2]
        /\ ~splitter.valid =>
               /\ pc = "failed"
               /\ splitter = NoSplitter
               /\ op = "none"
               /\ chunks = <<>>

\* A splitter built with a negative overlap has been used for a split.
C1_Witness ==
    /\ SplitDone
    /\ args[2] < 0
    /\ NChunks >= 2

\* C2: for chunk_size > overlap > 0 every position of the text lies inside a
\* chunk, chunk j (0-based) occupying j*s .. j*s + len(chunk_j) - 1, and the
\* chunk holds the character of the text at that position.
C2_Coverage ==
    (SplitDone /\ InContract) =>
        \A p \in 0..(Len(text) - 1) :
            \E j \in 1..NChunks :
                /\ StartOf(j) <= p
                /\ p < EndOf(j)
                /\ chunks[j][p - StartOf(j) + 1] = text[p + 1]

C2_Witness ==
    /\ SplitDone
    /\ InContract
    /\ NChunks >= 3
    /\ Len(text) > ChunkSize
    /\ Len(chunks[NChunks]) < ChunkSize

\* C3 as written: every chunk but the last has length exactly chunk_size.
C3_Original ==
    (SplitDone /\ InContract) =>
        \A j \in 1..(NChunks - 1) : Len(chunks[j]) = ChunkSize

IsShort(j) == Len(chunks[j]) < ChunkSize

\* C3 amended: chunk j (0-based) has length min(chunk_size, len(text) - j*s);
\* a chunk whose window fits in the text has length exactly chunk_size, every
\* chunk starting after len(text) - chunk_size is shorter, the shorter chunks
\* form a suffix of the sequence of at most ceil((chunk_size - 1) / s) chunks,
\* and only the final chunk can be shorter when overlap = 1.
C3_Amended ==
    (SplitDone /\ InContract) =>
        /\ \A j \in 1..NChunks :
            /\ Len(chunks[j]) = Min(ChunkSize, Len(text) - StartOf(j))
            /\ StartOf(j) + ChunkSize <= Len(text) => Len(chunks[j]) = ChunkSize
            /\ StartOf(j) + ChunkSize > Len(text) => IsShort(j)
            /\ Len(chunks[j]) >= 1
        /\ \A j, k \in 1..NChunks : (j < k /\ IsShort(j)) => IsShort(k)
        /\ Cardinality({j \in 1..NChunks : IsShort(j)})
               <= CeilDiv(ChunkSize - 1, Stride)
        /\ Overlap = 1 => \A j \in 1..(NChunks - 1) : ~IsShort(j)

\* A full chunk followed by two shorter ones.
C3_Witness ==
    /\ SplitDone
    /\ InContract
    /\ NChunks >= 3
    /\ ~IsShort(1)
    /\ IsShort(NChunks - 1)

\* Number of text positions chunks j and j+1 have in common.
SharedPositions(j) ==
    Max(0, Min(EndOf(j), EndOf(j + 1)) - StartOf(j + 1))

\* The last n characters of chunk j are the first n characters of chunk j+1.
TailIsHead(j, n) ==
    /\ Len(chunks[j]) >= n
    /\ Len(chunks[j + 1]) >= n
    /\ SubSeq(chunks[j], Len(chunks[j]) - n + 1, Len(chunks[j]))
           = SubSeq(chunks[j + 1], 1, n)

\* C4 as written: every pair of consecutive chunks, except the pair that ends
\* in the last chunk, shares exactly overlap characters.
C4_Original ==
    (SplitDone /\ InContract) =>
        \A j \in 1..(NChunks - 2) :
            /\ SharedPositions(j) = Overlap
            /\ TailIsHead(j, Overlap)

\* C4 amended: consecutive chunks j, j+1 share exactly
\* min(overlap, len(chunk j+1)) characters, the tail of the earlier one being
\* the head of the later one; that is exactly overlap whenever the later chunk
\* has at least overlap characters, and fewer for every pair whose later chunk
\* is shorter than overlap (there can be several such pairs at the end).
C4_Amended ==
    (SplitDone /\ InContract) =>
        \A j \in 1..(NChunks - 1) :
            /\ SharedPositions(j) = Min(Overlap, Len(chunks[j + 1]))
            /\ TailIsHead(j, Min(Overlap, Len(chunks[j + 1])))
            /\ Len(chunks[j + 1]) >= Overlap =>
                   (SharedPositions(j) = Overlap /\ TailIsHead(j, Overlap))
            /\ Len(chunks[j + 1]) < Overlap =>
                   (SharedPositions(j) < Overlap /\ ~TailIsHead(j, Overlap))

\* A pair that does not end in the last chunk and shares fewer than overlap.
C4_Witness ==
    /\ SplitDone
    /\ InContract
    /\ \E j \in 1..(NChunks - 2) : Len(chunks[j + 1]) < Overlap

\* The windows of C5: chunk j (0-based) is text[j*s .. min(j*s + chunk_size, len) - 1].
WindowsOfText ==
    /\ NChunks = CeilDiv(Len(text), Stride)
    /\ \A j \in 1..NChunks :
        /\ StartOf(j) < Len(text)
        /\ chunks[j] = SubSeq(text, StartOf(j) + 1,
                              Min(StartOf(j) + ChunkSize, Len(text)))
        /\ chunks[j] # <<>>
    /\ text = <<>> => chunks = <<>>

\* C5 as written, for every splitter that can be constructed.
C5_Original ==
    SplitDone => WindowsOfText

\* C5 amended: the statement holds for every splitter with chunk_size >= 1
\* (whatever the overlap below chunk_size, so in particular whenever
\* chunk_size > overlap > 0); with chunk_size <= 0 the chunks are empty or
\* are cut by Python's negative slice bound.
C5_Amended ==
    (SplitDone /\ ChunkSize >= 1) => WindowsOfText

C5_Witness ==
    /\ SplitDone
    /\ InContract
    /\ NChunks >= 2
    /\ Len(text) % Stride # 0

RECURSIVE FlatSplit(_, _)
FlatSplit(self, ts) ==
    IF ts = <<>> THEN <<>>
    ELSE split(self, Head(ts)) \o FlatSplit(self, Tail(ts))

RECURSIVE ChunksBefore(_, _, _)
ChunksBefore(self, ts, i) ==
    IF i <= 1 THEN 0
    ELSE ChunksBefore(self, ts, i - 1) + Len(split(self, ts[i - 1]))

\* C6: split_texts(documents) is the concatenation in document order of
\* split(d); the chunks of document i are the contiguous block that follows
\* the chunks of the documents before it, and splitting a list is splitting
\* any prefix and the matching suffix and concatenating the results.
C6_Concatenation ==
    (pc = "done" /\ op = "split_texts") =>
        /\ chunks = FlatSplit(splitter, texts)
        /\ NChunks = ChunksBefore(splitter, texts, Len(texts) + 1)
        /\ \A i \in 1..Len(texts) :
            SubSeq(chunks, ChunksBefore(splitter, texts, i) + 1,
                   ChunksBefore(splitter, texts, i + 1))
                = split(splitter, texts[i])
        /\ \A k \in 0..Len(texts) :
            chunks = split_texts(splitter, SubSeq(texts, 1, k))
                     \o split_texts(splitter, SubSeq(texts, k + 1, Len(texts)))
        /\ texts = <<>> => chunks = <<>>

C6_Witness ==
    /\ pc = "done"
    /\ op = "split_texts"
    /\ Len(texts) = 2
    /\ texts[1] # texts[2]
    /\ Len(split(splitter, texts[1])) >= 2
    /\ Len(split(splitter, texts[2])) >= 2

ExampleSplit ==
    /\ SplitDone
    /\ text = CatDoc
    /\ args = ExampleConfig

\* C7 as written: some chunk of the example contains "cat sat on the mat".
C7_Original ==
    ExampleSplit => \E j \in 1..NChunks : Contains(chunks[j], CatPhrase)

\* C7 amended: the example document yields exactly the two chunks
\* "The cat sat on the m" and "the mat."; the phrase "cat sat on the mat" is
\* cut between them and no chunk contains it, the first chunk holding its
\* first 16 characters "cat sat on the m".
C7_Amended ==
    ExampleSplit =>
        /\ chunks = <<SubSeq(CatDoc, 1, 20), SubSeq(CatDoc, 16, 23)>>
        /\ \A j \in 1..NChunks : ~Contains(chunks[j], CatPhrase)
        /\ Contains(chunks[1], SubSeq(CatPhrase, 1, 16))
        /\ ~Contains(chunks[2], SubSeq(CatPhrase, 1, 16))

C7_Witness ==
    /\ ExampleSplit
    /\ NChunks = 2

(***************************************************************************)
(* Properties of check_rate_limit, specification SpecRate.                 *)
(***************************************************************************)
Called == last.outcome # "none"

\* Number of timestamps of list in the half-open window (t - window, t].
CountIn(list, t) ==
    Cardinality({i \in 1..Len(list) : t - window < list[i] /\ list[i] <= t})

\* C8: for every client and every instant t at most limit admitted calls of
\* the client have a timestamp in (t - window, t], and no stored list holds
\* more than limit timestamps.
C8_AtMostLimit ==
    /\ \A ip \in IPs : \A t \in 0..(now + window) :
           CountIn(admitted[ip], t) <= limit
    /\ \A key \in DOMAIN request_counts : Len(request_counts[key]) <= limit

\* A client with more than limit admitted calls in all has its window full
\* again and its last call was rejected.
C8_Witness ==
    /\ \E ip \in IPs :
        /\ Len(admitted[ip]) > limit
        /\ CountIn(admitted[ip], now) = limit
        /\ last.ip = ip
        /\ last.outcome = "rejected"
    /\ limit >= 2

IsSuffix(s, t) ==
    /\ Len(s) <= Len(t)
    /\ s = SubSeq(t, Len(t) - Len(s) + 1, Len(t))

\* The timestamps of the list before the last call whose age is below window.
KeptOfLast ==
    SelectSeq(last.before, LAMBDA r : last.time - r < window)

\* C9: a call is rejected exactly when at least limit timestamps of the
\* client remain after discarding those of age >= window; a rejected call
\* leaves only the remaining timestamps stored, so every stored timestamp is
\* the timestamp of an admitted call, and a call made at least window after
\* the oldest stored timestamp is admitted.
C9_RejectExactly ==
    /\ Called =>
        /\ last.outcome = "rejected" <=> Len(KeptOfLast) >= limit
        /\ last.outcome = "rejected" =>
               StoredFor(request_counts, last.ip) = KeptOfLast
        /\ last.outcome = "admitted" =>
               StoredFor(request_counts, last.ip) = Append(KeptOfLast, last.time)
        /\ (last.before # <<>> /\ last.time - last.before[1] >= window) =>
               last.outcome = "admitted"
    /\ \A ip \in IPs : IsSuffix(StoredFor(request_counts, ip), admitted[ip])

\* A rejected call on a full list whose oldest timestamp is still in the window.
C9_Witness ==
    /\ last.outcome = "rejected"
    /\ Len(last.before) = limit
    /\ last.time > last.before[1]
    /\ StoredFor(request_counts, last.ip) = last.before

\* The admitted calls of the caller of the last call that precede that call.
EarlierAdmitted ==
    IF last.outcome = "admitted"
    THEN SubSeq(admitted[last.ip], 1, Len(admitted[last.ip]) - 1)
    ELSE admitted[last.ip]

\* C10: a call for one ip leaves the list stored for every other ip as it
\* was, and whether a call is admitted is decided by the earlier admitted
\* calls of the same ip alone: it is admitted exactly when fewer than limit
\* of them are younger than window.
C10_Isolation ==
    /\ [][\A b \in IPs :
             (last' # last /\ b # last'.ip) =>
                 /\ StoredFor(request_counts', b) = StoredFor(request_counts, b)
                 /\ (b \in DOMAIN request_counts') = (b \in DOMAIN request_counts)
                 /\ admitted'[b] = admitted[b]]_vars
    /\ [](DOMAIN request_counts \subseteq IPs)
    /\ [](Called =>
             (last.outcome = "admitted"
                 <=> CountIn(EarlierAdmitted, last.time) < limit))

\* One client is rejected while the other, called later, is admitted.
C10_Witness ==
    /\ last.outcome = "admitted"
    /\ \E b \in IPs :
        /\ b # last.ip
        /\ Len(StoredFor(request_counts, b)) = limit
        /\ CountIn(admitted[b], last.time) = limit
    /\ Len(last.before) >= 1

====
